---------------------------- MODULE Spec2Model ----------------------------
(***************************************************************************)
(* Model of src/main.rs: a "key = value" configuration reader that builds  *)
(* a nested tree from dotted keys and prints it as JSON, one block per     *)
(* input file.                                                             *)
(*                                                                         *)
(* Text is modelled as sequences of one-character strings.  Three          *)
(* specifications share the variables:                                     *)
(*   SpecParse   the per-line classification and regex capture;            *)
(*   SpecInsert  insert_config_value applied to a sequence of keys;        *)
(*   Spec        the whole program: argument resolution, the per-file      *)
(*               read loop, output, exit status.                           *)
(***************************************************************************)
EXTENDS Integers, Sequences, FiniteSets, TLC

VARIABLES
    pc,           \* position of the program
    line,         \* the line the read loop is handling (the last one read)
    parsed,       \* what the loop body extracted from `line`
    config,       \* the tree being built for the current file
    prev_config,  \* history: `config` as it was before the last loop body
    last_write,   \* history: key -> value of the last insert made with that key
    ninserts,     \* history: number of calls of insert_config_value in this pass
    args,         \* env::args().skip(1)
    text_files,   \* the resolved files, in discovery order
    fidx,         \* index in text_files of the file main's loop is at
    nread,        \* items the reader has yielded for the current file
    stdout,       \* what println! wrote
    stderr,       \* what eprintln! (and the panic hook) wrote
    failed,       \* history: indices in text_files whose open or read failed
    exit_code     \* the process's exit status, once pc = "exited"

vars == <<pc, line, parsed, config, prev_config, last_write, ninserts,
          args, text_files, fidx, nread, stdout, stderr, failed, exit_code>>

---------------------------------------------------------------------------
(* Bounds *)

MaxLineLen == 6   \* SpecParse: lines of up to this many characters
MaxInserts == 3   \* SpecInsert: inserts per parse pass
MaxArgs == 2      \* Spec: command-line arguments
MaxLines == 2     \* Spec: items the reader yields per file

---------------------------------------------------------------------------
(* Characters and strings *)

Min(S) == CHOOSE x \in S : \A y \in S : x <= y

\* Rust's char::is_whitespace, restricted to the characters lines are made of.
IsSpace(c) == c \in {" ", "\t"}

Letters == {"a", "b", "c", "d", "e", "f", "g", "h", "i", "j", "k", "l", "m",
            "n", "o", "p", "q", "r", "s", "t", "u", "v", "w", "x", "y", "z",
            "A", "B", "C", "D", "E", "F", "G", "H", "I", "J", "K", "L", "M",
            "N", "O", "P", "Q", "R", "S", "T", "U", "V", "W", "X", "Y", "Z"}
Digits == {"0", "1", "2", "3", "4", "5", "6", "7", "8", "9"}

\* A mutation of the key class: the class without '.', [a-zA-Z0-9_-].
IsKeyCharNoDot(c) == c \in Letters \cup Digits \cup {"_", "-"}

\* The class [a-zA-Z0-9._-] of CONFIG_REGEX's first group.
IsKeyChar(c) == c \in Letters \cup Digits \cup {".", "_", "-"}

\* str::trim: the slice without leading and trailing whitespace.
RECURSIVE trim_start(_)
trim_start(s) ==
    IF s # <<>> /\ IsSpace(Head(s)) THEN trim_start(Tail(s)) ELSE s

RECURSIVE trim_end(_)
trim_end(s) ==
    IF s # <<>> /\ IsSpace(s[Len(s)])
    THEN trim_end(SubSeq(s, 1, Len(s) - 1))
    ELSE s

trim(s) == trim_end(trim_start(s))

---------------------------------------------------------------------------
(* The regular expressions *)

\* \s* from position i: the first position at or after i that holds no
\* whitespace (Len(s) + 1 when there is none).
RECURSIVE SkipSpaces(_, _)
SkipSpaces(s, i) ==
    IF i <= Len(s) /\ IsSpace(s[i]) THEN SkipSpaces(s, i + 1) ELSE i

\* [a-zA-Z0-9._-]* from position i, greedy.
RECURSIVE SkipKey(_, _)
SkipKey(s, i) ==
    IF i <= Len(s) /\ IsKeyChar(s[i]) THEN SkipKey(s, i + 1) ELSE i

NoMatch == [matched |-> FALSE]

\* \s*([a-zA-Z0-9._-]+)\s*=\s*(.+?)\s*$ matched with its start at position i.
\* The key group is greedy and what follows it is no key character, so it is
\* maximal.  The value group is lazy: it ends at the first position after
\* which only whitespace remains.  When nothing but whitespace follows '=',
\* the greedy \s* before the group gives one character back, and the group
\* is the last whitespace character of the text.
CapturesFrom(s, i) ==
    LET k0 == SkipSpaces(s, i)
        k1 == SkipKey(s, k0)
        e  == SkipSpaces(s, k1)
        v0 == SkipSpaces(s, e + 1)
        n  == Len(s)
    IN  IF k1 = k0 THEN NoMatch
        ELSE IF e > n \/ s[e] # "=" THEN NoMatch
        ELSE IF v0 <= n
             THEN LET ends == {j \in v0..n :
                                 \A t \in (j + 1)..n : IsSpace(s[t])}
                  IN  [matched |-> TRUE,
                       g1 |-> SubSeq(s, k0, k1 - 1),
                       g2 |-> SubSeq(s, v0, Min(ends))]
        ELSE IF v0 > e + 1
             THEN [matched |-> TRUE,
                   g1 |-> SubSeq(s, k0, k1 - 1),
                   g2 |-> SubSeq(s, n, n)]
        ELSE NoMatch

\* A mutation of CONFIG_REGEX: the pattern without its leading ^, which
\* matches at the leftmost position a match starts at.
ConfigCapturesUnanchored(s) ==
    LET starts == {i \in 1..Len(s) : CapturesFrom(s, i).matched}
    IN  IF starts = {} THEN NoMatch ELSE CapturesFrom(s, Min(starts))

\* CONFIG_REGEX.captures(s): the pattern is anchored at the start by ^.
ConfigCaptures(s) == CapturesFrom(s, 1)

\* COMMENT_REGEX.is_match(s): ^\s*#
CommentIsMatch(s) ==
    LET i == SkipSpaces(s, 1) IN i <= Len(s) /\ s[i] = "#"

NoPair == [some |-> FALSE]

\* The body of the read loop up to the call of insert_config_value: the pair
\* the line yields, if any.
ParseLine(l) ==
    LET trimmed_line == trim(l)
    IN  IF CommentIsMatch(trimmed_line) \/ trimmed_line = <<>>
        THEN NoPair
        ELSE LET captures == ConfigCaptures(trimmed_line)
             IN  IF captures.matched
                 THEN [some |-> TRUE,
                       key |-> captures.g1,
                       value |-> trim(captures.g2)]
                 ELSE NoPair

---------------------------------------------------------------------------
(* ConfigValue and the tree builder *)

\* enum ConfigValue { String(String), Map(HashMap<String, ConfigValue>) }
String(s) == [tag |-> "String", s |-> s]
Map(m) == [tag |-> "Map", m |-> m]

\* HashMap::new()
EmptyMap == <<>>

\* HashMap::insert: binds k to v, replacing what k was bound to.
HashMapInsert(m, k, v) ==
    [x \in DOMAIN m \cup {k} |-> IF x = k THEN v ELSE m[x]]

\* A mutation of as_map_mut: a String is taken for an empty namespace.
as_map_mut_coerce(v) ==
    IF v.tag = "Map" THEN [some |-> TRUE, m |-> v.m]
    ELSE [some |-> TRUE, m |-> EmptyMap]

\* ConfigValue::as_map_mut: Some(m) for Map(m), None for a String.
as_map_mut(v) ==
    IF v.tag = "Map" THEN [some |-> TRUE, m |-> v.m] ELSE [some |-> FALSE]

\* A mutation of the entry lookup: a fresh empty Map is bound at the
\* segment whether or not an entry exists (insert in place of or_insert_with).
EntryAlwaysNew(m, k) == Map(EmptyMap)

\* map.entry(k).or_insert_with(|| ConfigValue::Map(HashMap::new())): the
\* value k is bound to afterwards.
EntryOrInsertWith(m, k) ==
    IF k \in DOMAIN m THEN m[k] ELSE Map(EmptyMap)

\* A mutation of the final bind: entry(k).or_insert(v), which keeps an
\* existing entry.
FinalKeep(m, k, v) ==
    IF k \in DOMAIN m THEN m ELSE HashMapInsert(m, k, v)

\* map.insert(keys.last(), value)
FinalInsert(m, k, v) == HashMapInsert(m, k, v)

\* key.split('.'): the segments between the dots; empty segments are kept.
RECURSIVE Split(_)
Split(s) ==
    LET dots == {i \in 1..Len(s) : s[i] = "."}
    IN  IF dots = {} THEN <<s>>
        ELSE LET i == Min(dots)
             IN  <<SubSeq(s, 1, i - 1)>> \o Split(SubSeq(s, i + 1, Len(s)))

\* The walk of insert_config_value from the map m with the segments keys
\* left.  The result is the map as the walk leaves it and whether the
\* expect() panicked; a panic leaves in place what the walk had bound
\* before it.
RECURSIVE Walk(_, _, _)
Walk(m, keys, value) ==
    IF Len(keys) = 1
    THEN [panicked |-> FALSE, map |-> FinalInsert(m, keys[1], value)]
    ELSE LET sub_key == keys[1]
             entry == EntryOrInsertWith(m, sub_key)
             bound == HashMapInsert(m, sub_key, entry)
             inner == as_map_mut(entry)
         IN  IF ~inner.some
             THEN [panicked |-> TRUE, map |-> bound]
             ELSE LET r == Walk(inner.m, Tail(keys), value)
                  IN  [panicked |-> r.panicked,
                       map |-> HashMapInsert(m, sub_key, Map(r.map))]

insert_config_value(cfg, key, value) == Walk(cfg, Split(key), value)

---------------------------------------------------------------------------
(* SpecParse: the loop body's extraction, on every line of up to           *)
(* MaxLineLen characters over Alphabet.                                    *)

Alphabet == {"a", "1", ".", " ", "=", "#"}

LinesUpTo(n) == UNION {[1..k -> Alphabet] : k \in 0..n}

InitParse ==
    /\ pc = "line"
    /\ line \in LinesUpTo(MaxLineLen)
    /\ parsed = NoPair
    /\ config = EmptyMap
    /\ prev_config = EmptyMap
    /\ last_write = <<>>
    /\ ninserts = 0
    /\ args = <<>>
    /\ text_files = <<>>
    /\ fidx = 0
    /\ nread = 0
    /\ stdout = <<>>
    /\ stderr = <<>>
    /\ failed = {}
    /\ exit_code = 0

Extract ==
    /\ pc = "line"
    /\ parsed' = ParseLine(line)
    /\ pc' = "parsed"
    /\ UNCHANGED <<line, config, prev_config, last_write, ninserts, args,
                   text_files, fidx, nread, stdout, stderr, failed, exit_code>>

NextParse == Extract

SpecParse == InitParse /\ [][NextParse]_vars

---------------------------------------------------------------------------
(* SpecInsert: insert_config_value called up to MaxInserts times on one    *)
(* tree, with keys from InsertKeys and values from InsertValues.           *)

InsertKeys ==
    { <<"a">>, <<"b">>,
      <<"a", ".", "b">>, <<"a", ".", "c">>,
      <<"a", ".", "b", ".", "c">>,
      <<"a", ".", ".", "b">> }

InsertValues == { <<"1">>, <<"2">> }

InitInsert ==
    /\ pc = "insert"
    /\ line = <<>>
    /\ parsed = NoPair
    /\ config = EmptyMap
    /\ prev_config = EmptyMap
    /\ last_write = <<>>
    /\ ninserts = 0
    /\ args = <<>>
    /\ text_files = <<>>
    /\ fidx = 0
    /\ nread = 0
    /\ stdout = <<>>
    /\ stderr = <<>>
    /\ failed = {}
    /\ exit_code = 0

\* One call insert_config_value(&mut config, &key, ConfigValue::String(value)).
Insert(key, value) ==
    /\ pc = "insert"
    /\ ninserts < MaxInserts
    /\ LET r == insert_config_value(config, key, String(value))
       IN  /\ config' = r.map
           /\ pc' = IF r.panicked THEN "panicked" ELSE "insert"
           /\ last_write' = IF r.panicked THEN last_write
                            ELSE HashMapInsert(last_write, key, value)
    /\ parsed' = [some |-> TRUE, key |-> key, value |-> value]
    /\ prev_config' = config
    /\ ninserts' = ninserts + 1
    /\ UNCHANGED <<line, args, text_files, fidx, nread, stdout, stderr,
                   failed, exit_code>>

NextInsert == \E key \in InsertKeys, value \in InsertValues : Insert(key, value)

SpecInsert == InitInsert /\ [][NextInsert]_vars

---------------------------------------------------------------------------
(* The driver: argument resolution, the per-file loop, output *)

\* The file system the program runs on: "f" is a readable file, "g" a file
\* that cannot be opened, "d" a directory holding the file "d/f" and the
\* sub-directory "d/s", "nope" does not exist.
ArgPaths == {"f", "g", "d", "nope"}

is_file(p) == p \in {"f", "g", "d/f"}
is_dir(p) == p \in {"d", "d/s"}
read_dir(p) == IF p = "d" THEN <<"d/f", "d/s">> ELSE <<>>

\* fs::File::open(file_path) succeeds.
CanOpen(p) == p # "g"

\* collect_text_files: Ok(files) or Err(NotFound).
collect_text_files(path) ==
    IF is_file(path) THEN [ok |-> TRUE, files |-> <<path>>]
    ELSE IF is_dir(path)
         THEN [ok |-> TRUE, files |-> SelectSeq(read_dir(path), is_file)]
    ELSE [ok |-> FALSE, err |-> "NotFound"]

\* Result::unwrap_or_default on collect_text_files' result.
unwrap_or_default(r) == IF r.ok THEN r.files ELSE <<>>

\* args.iter().flat_map(|arg| collect_text_files(arg).unwrap_or_default())
RECURSIVE get_text_files(_)
get_text_files(a) ==
    IF a = <<>> THEN <<>>
    ELSE unwrap_or_default(collect_text_files(Head(a)))
             \o get_text_files(Tail(a))

\* format_as_json: a String becomes a JSON string, a Map a JSON object of
\* its formatted entries.
RECURSIVE format_as_json(_)
format_as_json(m) ==
    [type |-> "object",
     members |-> [k \in DOMAIN m |->
                    IF m[k].tag = "String"
                    THEN [type |-> "string", value |-> m[k].s]
                    ELSE format_as_json(m[k].m)]]

UsageExitCode == 1
PanicExitCode == 101

\* What the program writes.  idx is the position in text_files of the file
\* the output belongs to.
Header(i, path) == [kind |-> "header", idx |-> i, path |-> path]
JsonBlock(i, v) == [kind |-> "json", idx |-> i, value |-> v]
UsageMessage == [kind |-> "usage"]
ReadErrorMessage(path) == [kind |-> "read_error", path |-> path, cause |-> "open"]
PanicMessage == [kind |-> "panic", message |-> "type mismatch"]

\* The lines the reader yields in Spec.
FileLines ==
    { <<"a", "=", "1">>,
      <<" ", "a", ".", "b", " ", "=", " ", "2", " ">>,
      <<"#">>,
      <<" ", "#", "a", "=", "1">>,
      <<>>,
      <<" ", " ">>,
      <<"a">>,
      <<"=", "1">>,
      <<"a", "=">>,
      <<"a", " ", "b", "=", "1">>,
      <<"!", "a", "=", "1">> }

Init ==
    /\ pc = "main"
    /\ args \in UNION {[1..n -> ArgPaths] : n \in 0..MaxArgs}
    /\ text_files = <<>>
    /\ fidx = 0
    /\ nread = 0
    /\ line = <<>>
    /\ parsed = NoPair
    /\ config = EmptyMap
    /\ prev_config = EmptyMap
    /\ last_write = <<>>
    /\ ninserts = 0
    /\ stdout = <<>>
    /\ stderr = <<>>
    /\ failed = {}
    /\ exit_code = 0

\* get_text_files with no argument: the usage message and exit(1).
Usage ==
    /\ pc = "main"
    /\ args = <<>>
    /\ stderr' = Append(stderr, UsageMessage)
    /\ exit_code' = UsageExitCode
    /\ pc' = "exited"
    /\ UNCHANGED <<line, parsed, config, prev_config, last_write, ninserts,
                   args, text_files, fidx, nread, stdout, failed>>

\* get_text_files with arguments: the files of every argument, in order.
Resolve ==
    /\ pc = "main"
    /\ args # <<>>
    /\ text_files' = get_text_files(args)
    /\ fidx' = 1
    /\ pc' = "loop"
    /\ UNCHANGED <<line, parsed, config, prev_config, last_write, ninserts,
                   args, nread, stdout, stderr, failed, exit_code>>

\* One turn of main's loop up to the open: the header is printed, then
\* parse_config_file opens the file and starts with an empty tree.
OpenOk ==
    /\ pc = "loop"
    /\ fidx <= Len(text_files)
    /\ CanOpen(text_files[fidx])
    /\ stdout' = Append(stdout, Header(fidx, text_files[fidx]))
    /\ config' = EmptyMap
    /\ prev_config' = EmptyMap
    /\ line' = <<>>
    /\ parsed' = NoPair
    /\ nread' = 0
    /\ pc' = "read"
    /\ UNCHANGED <<last_write, ninserts, args, text_files, fidx, stderr,
                   failed, exit_code>>

\* One turn of main's loop when the open fails: the header is printed,
\* parse_config_file returns Err and main reports it.
OpenErr ==
    /\ pc = "loop"
    /\ fidx <= Len(text_files)
    /\ ~CanOpen(text_files[fidx])
    /\ stdout' = Append(stdout, Header(fidx, text_files[fidx]))
    /\ stderr' = Append(stderr, ReadErrorMessage(text_files[fidx]))
    /\ failed' = failed \cup {fidx}
    /\ fidx' = fidx + 1
    /\ UNCHANGED <<pc, line, parsed, config, prev_config, last_write,
                   ninserts, args, text_files, nread, exit_code>>

\* One turn of the read loop on Ok(l): the line is classified and, when it
\* is an assignment, inserted.  A panic of the insert ends the process with
\* the panic message and status 101.
ReadLine(l) ==
    /\ pc = "read"
    /\ nread < MaxLines
    /\ LET p == ParseLine(l)
           r == IF p.some
                THEN insert_config_value(config, p.key, String(p.value))
                ELSE [panicked |-> FALSE, map |-> config]
       IN  /\ parsed' = p
           /\ config' = r.map
           /\ pc' = IF r.panicked THEN "exited" ELSE "read"
           /\ stderr' = IF r.panicked THEN Append(stderr, PanicMessage)
                        ELSE stderr
           /\ exit_code' = IF r.panicked THEN PanicExitCode ELSE exit_code
    /\ line' = l
    /\ prev_config' = config
    /\ nread' = nread + 1
    /\ UNCHANGED <<last_write, ninserts, args, text_files, fidx, stdout,
                   failed>>

\* One turn of the read loop on Err(e) (a read failure, a line that is not
\* UTF-8): flatten() drops the item and the loop goes on.  (An error the
\* reader returns on every call keeps the loop in this turn; the bound
\* MaxLines ends it here.)
ReadError ==
    /\ pc = "read"
    /\ nread < MaxLines
    /\ nread' = nread + 1
    /\ failed' = failed \cup {fidx}
    /\ UNCHANGED <<pc, line, parsed, config, prev_config, last_write,
                   ninserts, args, text_files, fidx, stdout, stderr,
                   exit_code>>

\* The reader is exhausted: parse_config_file returns Ok(config) and main
\* prints the JSON of the tree.
EndOfFile ==
    /\ pc = "read"
    /\ stdout' = Append(stdout, JsonBlock(fidx, format_as_json(config)))
    /\ fidx' = fidx + 1
    /\ pc' = "loop"
    /\ UNCHANGED <<line, parsed, config, prev_config, last_write, ninserts,
                   args, text_files, nread, stderr, failed, exit_code>>

\* main returns after the last file.
Finish ==
    /\ pc = "loop"
    /\ fidx > Len(text_files)
    /\ exit_code' = 0
    /\ pc' = "exited"
    /\ UNCHANGED <<line, parsed, config, prev_config, last_write, ninserts,
                   args, text_files, fidx, nread, stdout, stderr, failed>>

Next ==
    \/ Usage
    \/ Resolve
    \/ OpenOk
    \/ OpenErr
    \/ \E l \in FileLines : ReadLine(l)
    \/ ReadError
    \/ EndOfFile
    \/ Finish

Spec == Init /\ [][Next]_vars

---------------------------------------------------------------------------
(* Vocabulary of the properties *)

Absent == [tag |-> "Absent"]

\* What the tree m holds at the path p (a non-empty sequence of segments).
RECURSIVE Lookup(_, _)
Lookup(m, p) ==
    IF p[1] \notin DOMAIN m THEN Absent
    ELSE IF Len(p) = 1 THEN m[p[1]]
    ELSE IF m[p[1]].tag = "Map" THEN Lookup(m[p[1]].m, Tail(p))
    ELSE Absent

IsPrefix(p, q) == Len(p) <= Len(q) /\ SubSeq(q, 1, Len(p)) = p

\* Every path an insert of SpecInsert can bind.
CandidatePaths ==
    UNION { {SubSeq(Split(k), 1, n) : n \in 1..Len(Split(k))} : k \in InsertKeys }

\* The segments of the key of the last insert.
LastPath == Split(parsed.key)

\* The last insert met a Leaf at a segment before its last one.
LeafOnTheWay ==
    \E n \in 1..(Len(LastPath) - 1) :
        Lookup(prev_config, SubSeq(LastPath, 1, n)).tag = "String"

\* No key of K names a path that another key of K passes through.
NonConflicting(K) ==
    \A k1 \in K, k2 \in K : k1 # k2 => ~IsPrefix(Split(k1), Split(k2))

Key_a == <<"a">>
Key_a_b == <<"a", ".", "b">>
Key_a_c == <<"a", ".", "c">>
Seg_a == <<"a">>
Seg_b == <<"b">>
Seg_c == <<"c">>
Val_1 == <<"1">>
Val_2 == <<"2">>

\* The tree {"a": {"b": "1", "c": "2"}}.
Tree_a_bc ==
    (Seg_a :> Map((Seg_b :> String(Val_1)) @@ (Seg_c :> String(Val_2))))

---------------------------------------------------------------------------
(* Properties of the tree builder, under SpecInsert *)

\* C1: an insert that returns has, at every segment of its key but the last,
\* a Node: a new one holding only the next segment where nothing was bound,
\* the existing one (its other entries kept) where a Node was bound; every
\* path off the key's path holds what it held before; and "a.b"=1, "a.c"=2
\* into an empty tree give {"a": {"b": "1", "c": "2"}}.
C1_DottedInsert ==
    /\ (pc = "insert" /\ ninserts > 0) =>
        /\ DOMAIN config = DOMAIN prev_config \cup {LastPath[1]}
        /\ \A n \in 1..(Len(LastPath) - 1) :
              LET p == SubSeq(LastPath, 1, n)
                  before == Lookup(prev_config, p)
                  after == Lookup(config, p)
              IN  /\ after.tag = "Map"
                  /\ before.tag = "Absent" =>
                        DOMAIN after.m = {LastPath[n + 1]}
                  /\ before.tag = "Map" =>
                        DOMAIN after.m = DOMAIN before.m \cup {LastPath[n + 1]}
        /\ \A q \in CandidatePaths :
              (~IsPrefix(q, LastPath) /\ ~IsPrefix(LastPath, q)) =>
                  Lookup(config, q) = Lookup(prev_config, q)
    /\ (/\ pc = "insert"
        /\ ninserts = 2
        /\ last_write = (Key_a_b :> Val_1) @@ (Key_a_c :> Val_2)) =>
            config = Tree_a_bc

\* C1's case: "a.c" = 2 inserted into {"a": {"b": "1"}}.
C1_Witness ==
    /\ pc = "insert"
    /\ ninserts = 2
    /\ parsed = [some |-> TRUE, key |-> Key_a_c, value |-> Val_2]
    /\ prev_config = (Seg_a :> Map(Seg_b :> String(Val_1)))
    /\ config = Tree_a_bc

\* C2: an insert that returns leaves its value as a Leaf at its key's full
\* path, whatever was bound there; and while no inserted key is a prefix of
\* another, every inserted key holds the value of its last insert.
C2_LastWriteWins ==
    /\ (pc = "insert" /\ ninserts > 0) =>
            Lookup(config, LastPath) = String(parsed.value)
    /\ NonConflicting(DOMAIN last_write) =>
            \A k \in DOMAIN last_write :
                Lookup(config, Split(k)) = String(last_write[k])

\* C2's case: "a" = 2 inserted into {"a": "1"} gives {"a": "2"}.
C2_Witness ==
    /\ pc = "insert"
    /\ parsed = [some |-> TRUE, key |-> Key_a, value |-> Val_2]
    /\ prev_config = (Seg_a :> String(Val_1))
    /\ config = (Seg_a :> String(Val_2))

\* C3: no insert changes the variant of an entry that exists: what was a
\* Leaf is a Leaf afterwards, what was a Node is a Node afterwards.
C3_VariantNeverChanges ==
    \A q \in CandidatePaths :
        Lookup(prev_config, q).tag \in {"String", "Map"} =>
            Lookup(config, q).tag = Lookup(prev_config, q).tag

\* C4: an insert that meets a Leaf at a segment before its last one fails,
\* and leaves the tree as it was: the Leaf is still that Leaf and the new
\* value is bound nowhere.
C4_LeafOnTheWayAborts ==
    (ninserts > 0 /\ LeafOnTheWay) =>
        /\ pc = "panicked"
        /\ config = prev_config
        /\ Lookup(config, LastPath) = Absent

\* C4's case: "a.b" = 2 inserted into {"a": "1"}.
C4_Witness ==
    /\ pc = "panicked"
    /\ parsed = [some |-> TRUE, key |-> Key_a_b, value |-> Val_2]
    /\ prev_config = (Seg_a :> String(Val_1))

---------------------------------------------------------------------------
(* Properties of the line parser, under SpecParse *)

\* The characters a key is made of: letters, digits, '.', '_', '-'.
KeyCharacters == Letters \cup Digits \cup {".", "_", "-"}

AllSpace(s, from, to) == \A t \in from..to : IsSpace(s[t])

\* The ways to read l as: whitespace, a key l[i..j-1] of one or more key
\* characters, whitespace, '=' at position e, and the remainder l[e+1..].
Readings(l) ==
    { d \in (1..Len(l)) \X (1..Len(l)) \X (1..Len(l)) :
        /\ d[1] < d[2]
        /\ d[2] <= d[3]
        /\ AllSpace(l, 1, d[1] - 1)
        /\ \A t \in d[1]..(d[2] - 1) : l[t] \in KeyCharacters
        /\ AllSpace(l, d[2], d[3] - 1)
        /\ l[d[3]] = "=" }

KeyOf(l, d) == SubSeq(l, d[1], d[2] - 1)
RemainderOf(l, d) == SubSeq(l, d[3] + 1, Len(l))

\* v is r without its leading and trailing whitespace, the rest untouched.
IsTrimOf(v, r) ==
    \E a \in 0..Len(r), b \in 0..Len(r) :
        /\ a + b <= Len(r)
        /\ v = SubSeq(r, a + 1, Len(r) - b)
        /\ AllSpace(r, 1, a)
        /\ AllSpace(r, Len(r) - b + 1, Len(r))
        /\ v # <<>> => (~IsSpace(v[1]) /\ ~IsSpace(v[Len(v)]))

HasText(r) == \E t \in 1..Len(r) : ~IsSpace(r[t])

\* C5 as stated: every line that reads as key, '=' and remainder yields the
\* pair of the key and the trimmed remainder.
C5_EveryAssignmentYieldsPair ==
    pc = "parsed" =>
        \A d \in Readings(line) :
            /\ parsed.some
            /\ parsed.key = KeyOf(line, d)
            /\ IsTrimOf(parsed.value, RemainderOf(line, d))

\* C5 amended: every such line whose remainder holds a character that is not
\* whitespace yields the pair of the key and the trimmed remainder; one whose
\* remainder is empty or all whitespace yields no pair.
C5_AssignmentWithValueYieldsPair ==
    pc = "parsed" =>
        \A d \in Readings(line) :
            IF HasText(RemainderOf(line, d))
            THEN /\ parsed.some
                 /\ parsed.key = KeyOf(line, d)
                 /\ IsTrimOf(parsed.value, RemainderOf(line, d))
            ELSE parsed = NoPair

\* C5's case: leading whitespace, a dotted key, whitespace inside the value.
C5_Witness ==
    /\ pc = "parsed"
    /\ line = <<" ", "a", "=", "1", " ", "1">>
    /\ Readings(line) # {}
    /\ parsed = [some |-> TRUE, key |-> <<"a">>, value |-> <<"1", " ", "1">>]

---------------------------------------------------------------------------
(* Properties of the whole program, under Spec *)

\* The first character of l that is not whitespace is '#'.
IsCommentLine(l) == \E i \in 1..Len(l) : AllSpace(l, 1, i - 1) /\ l[i] = "#"

\* l is empty once trimmed.
IsBlankLine(l) == AllSpace(l, 1, Len(l))

\* l reads as key, '=' and a value.
FitsAssignment(l) == \E d \in Readings(l) : HasText(RemainderOf(l, d))

Skipped(l) == IsCommentLine(l) \/ IsBlankLine(l) \/ ~FitsAssignment(l)

\* C6: a turn of the read loop on a comment line, a blank line or a line
\* that does not fit the assignment pattern yields no pair, leaves the tree
\* and both output streams as they were, and leaves the loop reading.
C6_SkippedLineChangesNothing ==
    [][ (pc = "read" /\ nread' = nread + 1 /\ line' \in FileLines
            /\ Skipped(line')) =>
        (/\ parsed' \in {parsed, NoPair}
         /\ config' = config
         /\ stdout' = stdout
         /\ stderr' = stderr
         /\ pc' = "read") ]_vars

\* C6's case: a line that fits no form was read after an assignment.
C6_Witness ==
    /\ pc = "read"
    /\ nread = 2
    /\ line = <<"!", "a", "=", "1">>
    /\ parsed = NoPair
    /\ config = (Seg_a :> String(Val_1))
    /\ config = prev_config

Range(s) == {s[i] : i \in 1..Len(s)}

\* The file at index i of text_files has been dealt with.
Processed(i) == i < fidx \/ pc = "exited"

\* C7: a file whose open or read failed has an error naming it on the error
\* stream and nothing on standard output, and the loop goes on to the files
\* after it.
C7_FailedFileReportedAndSilent ==
    \A i \in failed :
        Processed(i) =>
            /\ \E e \in Range(stderr) :
                  e.kind = "read_error" /\ e.path = text_files[i]
            /\ \A o \in Range(stdout) : o.idx # i

\* An argument that names neither a file nor a directory.
Missing(p) == ~is_file(p) /\ ~is_dir(p)

\* The report of an argument that could not be resolved.
PathErrorMessage(p) == [kind |-> "path_error", path |-> p]

\* C8: once the arguments are resolved, every argument that names neither a
\* file nor a directory has an error reported for it, and the file set is
\* that of the other arguments.
C8_MissingPathReported ==
    pc \in {"loop", "read", "exited"} /\ args # <<>> =>
        /\ \A k \in 1..Len(args) :
              Missing(args[k]) =>
                  PathErrorMessage(args[k]) \in Range(stderr)
        /\ text_files = get_text_files(SelectSeq(args, LAMBDA p : ~Missing(p)))

\* C9: the exit status is non-zero exactly when no argument was given, and
\* then the usage message is on the error stream and nothing on standard
\* output.
C9_NonZeroExitIffNoArguments ==
    pc = "exited" =>
        /\ (exit_code # 0) <=> (args = <<>>)
        /\ args = <<>> => (UsageMessage \in Range(stderr) /\ stdout = <<>>)

\* The indices of the headers in standard output, in order.
HeaderIndices ==
    LET hs == SelectSeq(stdout, LAMBDA o : o.kind = "header")
    IN  [k \in 1..Len(hs) |-> hs[k].idx]

\* C10: when a run with arguments has ended, standard output holds one
\* header per resolved file, in discovery order, each header of a file that
\* could be opened followed by that file's JSON.
C10_EveryFileGetsItsBlock ==
    (pc = "exited" /\ args # <<>>) =>
        /\ HeaderIndices = [k \in 1..Len(text_files) |-> k]
        /\ \A k \in 1..Len(stdout) :
              (stdout[k].kind = "header" /\ CanOpen(stdout[k].path)) =>
                  /\ k < Len(stdout)
                  /\ stdout[k + 1].kind = "json"
                  /\ stdout[k + 1].idx = stdout[k].idx

===========================================================================
